---- MODULE Spec2Model ----
(***************************************************************************)
(* Model of the DeFi Guard OSINT ingestion pipeline.                       *)
(*                                                                         *)
(*   Spec          app/scrapers/manager.py: scrape runs of ScraperManager  *)
(*                 (scrape_all_sources, scrape_sources) sharing the        *)
(*                 threat_intel table through _save_items_to_db.           *)
(*   SpecClassify  app/services/protocol_classifier.py: one invocation of  *)
(*                 ProtocolClassifier.classify_protocol.                   *)
(*   SpecArticle   app/scrapers/*_scraper.py: one _scrape_article call.    *)
(*   SpecFetch     app/scrapers/base_scraper.py: fetch_page calls.         *)
(*   SpecScrape    app/scrapers/*_scraper.py: one scrape() call.           *)
(*   SpecScheduler app/services/scheduler.py: BackgroundScheduler.         *)
(*                                                                         *)
(* Optional[...] values are modelled as sequences: None is <<>> and a      *)
(* present value v is <<v>>.                                               *)
(***************************************************************************)
EXTENDS Integers, Sequences, FiniteSets, TLC

VARIABLES
    corpus,     \* committed rows of table threat_intel (a set of records)
    clock,      \* datetime.utcnow(), in abstract time units
    pc,         \* per scrape run: "idle", "running", "returned", "raised", "cancelled"
    requested,  \* per scrape run: the source names the call iterates over
    todo,       \* per scrape run: the source names not yet handled
    items,      \* per scrape run: the list scraper.scrape() is building for Head(todo)
    results,    \* per scrape run: the results dict
    articles,   \* number of articles turned into items so far, over all runs
    cl,         \* state of one classify_protocol invocation (SpecClassify)
    art,        \* state of one _scrape_article invocation (SpecArticle)
    net,        \* fetch_page calls in flight and the GET requests issued (SpecFetch)
    scr,        \* state of one invocation of an adapter's scrape() (SpecScrape)
    sch         \* the BackgroundScheduler and its loop threads (SpecScheduler)

vars == <<corpus, clock, pc, requested, todo, items, results, articles, cl, art, net, scr, sch>>

-----------------------------------------------------------------------------
(* Bounds of the model *)

MaxClock == 1
MaxItems == 2
MaxArticles == 3
MaxN == 12
MaxTime == 3
MaxFetches == 2
MaxSkips == 2
MaxHours == 6
MaxStarts == 3

-----------------------------------------------------------------------------
(* Values *)

None == <<>>
Some(v) == <<v>>

\* concurrent scrape invocations on the one event loop: run 1 is the scheduler's
\* (run_scheduled_scrape), run 2 a request to POST /api/v1/scrape
Runs == {1, 2}
\* article URLs after urljoin(base_url, link): u1 is linked from the Rekt index only,
\* u2 from both the Rekt index and the Chainalysis blog
URLs == {"u1", "u2"}
URLsOf(key) == IF key = "rekt" THEN {"u1", "u2"} ELSE {"u2"}

\* extract_amount_lost(title + description) of the pages served: the Rekt pages may or
\* may not state a loss, the Chainalysis page states none
Amounts == {None, Some(5000000)}
AmountsOf(key) == IF key = "rekt" THEN Amounts ELSE {None}

\* self.scrapers: key -> scraper; insertion order of the dict
ScraperKeys == <<"rekt", "chainalysis">>
Scrapers == {ScraperKeys[i] : i \in DOMAIN ScraperKeys}

\* source_name each adapter writes into its ThreatIntelItem
DisplayName(key) == IF key = "rekt" THEN "Rekt News" ELSE "Chainalysis"

\* argument lists of scrape_sources
RequestedLists == {<<"rekt">>, <<"bogus", "chainalysis">>}

\* hashlib.md5(s.encode()).hexdigest(): a fixed function of s, injective on the URLs used
MD5(s) == <<"md5", s>>

\* fields of ThreatIntelItem / columns of ThreatIntelDB that are modelled
Fields == {"id", "title", "source_url", "source_name", "scraped_date", "amount_lost"}
OptionalFields == {"id", "amount_lost"}

TitleOf(url) == IF url = "u1" THEN "Protocol X Hacked" ELSE "Bridge Y Drained"

\* ThreatIntelItem(...) as built by an adapter's _scrape_article; id is left None,
\* scraped_date defaults to datetime.utcnow()
NewItem(key, url, amount, now) ==
    [id |-> None, title |-> TitleOf(url), source_url |-> url,
     source_name |-> DisplayName(key), scraped_date |-> now, amount_lost |-> amount]

-----------------------------------------------------------------------------
(* _save_items_to_db: one SQLAlchemy session (autoflush=False) *)

\* item_id = hashlib.md5(str(item.source_url).encode()).hexdigest()
\* (ItemIdWrong: the faulty variant that hashes the source name)
ItemIdWrong(item) == MD5(item.source_name)
ItemId(item) == MD5(item.source_url)

\* value is not None, for key of item.dict()
IsNone(item, key) == key \in OptionalFields /\ item[key] = None

EmptySession == [dirty |-> <<>>, new |-> <<>>]

\* db.query(ThreatIntelDB).filter(source_url == url).first(): the filter runs in SQL on
\* the rows of the table (pending inserts are not flushed, so they are not seen); a row
\* already loaded and modified in this session comes back as that modified object.
Query(db, sess, url) ==
    LET rows == {row \in db : row.source_url = url}
    IN IF rows = {} THEN None
       ELSE LET row == CHOOSE r \in rows : TRUE
                hit == {i \in DOMAIN sess.dirty : sess.dirty[i].id = row.id}
            IN IF hit = {} THEN Some(row)
               ELSE Some(sess.dirty[CHOOSE i \in hit : TRUE])

\* if item.scraped_date > existing.scraped_date
\* (IsNewerOrEqual: the faulty variant with >=)
IsNewerOrEqual(item, existing) == item.scraped_date >= existing.scraped_date
IsNewer(item, existing) == item.scraped_date > existing.scraped_date

\* for key, value in item_data.items(): if key != "id" and value is not None: setattr(...)
\* existing.scraped_date = datetime.utcnow()
\* (ApplyUpdateOverwriteAll: the faulty variant without "value is not None";
\*  ApplyUpdateKeepsTimestamp: the faulty variant without the line that sets
\*  existing.scraped_date)
ApplyUpdateOverwriteAll(existing, item, now) ==
    [[key \in Fields |-> IF key # "id" THEN item[key] ELSE existing[key]]
        EXCEPT !["scraped_date"] = now]
ApplyUpdateKeepsTimestamp(existing, item, now) ==
    [[key \in Fields |->
        IF key # "id" /\ ~IsNone(item, key) THEN item[key] ELSE existing[key]]
        EXCEPT !["scraped_date"] = existing.scraped_date]
ApplyUpdate(existing, item, now) ==
    [[key \in Fields |->
        IF key # "id" /\ ~IsNone(item, key) THEN item[key] ELSE existing[key]]
        EXCEPT !["scraped_date"] = now]

\* db_item = ThreatIntelDB(id=item_id, ..., source_name=source_name,
\*                         scraped_date=datetime.utcnow(), ...)
NewRow(item, source_name, now) ==
    [id |-> ItemId(item), title |-> item.title, source_url |-> item.source_url,
     source_name |-> source_name, scraped_date |-> now, amount_lost |-> item.amount_lost]

\* replace the session's modified copy of a row, or add one
PutDirty(dirty, obj) ==
    LET hit == {i \in DOMAIN dirty : dirty[i].id = obj.id}
    IN IF hit = {} THEN Append(dirty, obj)
       ELSE [dirty EXCEPT ![CHOOSE i \in hit : TRUE] = obj]

\* the body of "for item in items:" for one item; saved is saved_count
ProcessItem(db, st, item, source_name, now) ==
    LET existing == Query(db, st.sess, item.source_url)
    IN IF existing # None
       THEN IF IsNewer(item, existing[1])
            THEN [sess |-> [st.sess EXCEPT
                               !.dirty = PutDirty(@, ApplyUpdate(existing[1], item, now))],
                  saved |-> st.saved + 1]
            ELSE st
       ELSE [sess |-> [st.sess EXCEPT !.new = Append(@, NewRow(item, source_name, now))],
             saved |-> st.saved + 1]

\* the loop over items[1..n]
RECURSIVE ProcessItems(_, _, _, _, _)
ProcessItems(db, batch, n, source_name, now) ==
    IF n = 0 THEN [sess |-> EmptySession, saved |-> 0]
    ELSE ProcessItem(db, ProcessItems(db, batch, n - 1, source_name, now),
                     batch[n], source_name, now)

\* the elements of a finite set, listed in some order
RECURSIVE AsSeq(_)
AsSeq(S) ==
    IF S = {} THEN <<>>
    ELSE LET x == CHOOSE y \in S : TRUE IN <<x>> \o AsSeq(S \ {x})

\* the table after the session's UPDATEs and INSERTs, as a sequence of rows
\* (FlushedRowsSessionOnly: the faulty variant that keeps only the session's rows)
FlushedRowsSessionOnly(db, sess) == sess.dirty \o sess.new
FlushedRows(db, sess) ==
    LET dirtyIds == {sess.dirty[i].id : i \in DOMAIN sess.dirty}
        kept == {row \in db : row.id \notin dirtyIds}
    IN AsSeq(kept) \o sess.dirty \o sess.new

\* primary key (id) and unique=True (source_url) of ThreatIntelDB
ConstraintsHold(rows) ==
    \A i, j \in DOMAIN rows :
        i # j => rows[i].id # rows[j].id /\ rows[i].source_url # rows[j].source_url

\* db.commit(): flush inside the transaction, then make it visible
Commit(db, sess) == {FlushedRows(db, sess)[i] : i \in DOMAIN FlushedRows(db, sess)}

\* db.rollback(): nothing of the session reaches the table
\* (RollbackPartial: the faulty variant that lets the writes made so far through)
RollbackPartial(db, sess) ==
    LET rows == FlushedRows(db, sess)
    IN IF ConstraintsHold(rows) THEN {rows[i] : i \in DOMAIN rows} ELSE db
Rollback(db, sess) == db

NoFault == 0 - 1

\* _save_items_to_db(items, source_name) at time now. fault = NoFault, or the number of
\* items handled before the database raises (OperationalError and the like).
\* Returns the table afterwards, the outcome and saved_count.
SaveItems(db, batch, source_name, now, fault) ==
    LET n == IF fault = NoFault THEN Len(batch) ELSE fault
        st == ProcessItems(db, batch, n, source_name, now)
    IN IF fault # NoFault
       THEN [db |-> Rollback(db, st.sess), outcome |-> "operational_error",
             saved |-> 0, updated |-> 0]
       ELSE IF ~ConstraintsHold(FlushedRows(db, st.sess))
       THEN [db |-> Rollback(db, st.sess), outcome |-> "integrity_error",
             saved |-> 0, updated |-> 0]
       ELSE [db |-> Commit(db, st.sess), outcome |-> "committed",
             saved |-> st.saved, updated |-> Len(st.sess.dirty)]

-----------------------------------------------------------------------------
(* ScraperManager.scrape_all_sources / scrape_sources *)

\* except Exception as e: ... results[source_name] = {"status": "error", ...}
\* TRUE would mean the exception leaves the method
\* (PropagatesOnError: the faulty variant without the except clause)
PropagatesOnError(outcome) == outcome # "committed"
Propagates(outcome) == FALSE

\* results[source_name] after scrape + save of one source
SuccessEntry(batch, save) ==
    [status |-> "success", items_scraped |-> Len(batch), items_saved |-> save.saved]
ErrorEntry(msg) == [status |-> "error", error |-> msg]

\* no article is being scraped
ArtIdle == [pc |-> "idle"]

\* no fetch_page call has been made
NetIdle == [pc |-> "idle"]

\* no scrape() call has been made
ScrIdle == [pc |-> "idle"]

\* BackgroundScheduler.__init__ and the empty job list of module schedule: not
\* running, no loop thread, no job, no scrape launched
SchIdle ==
    [running |-> FALSE, threads |-> 0, crashed |-> 0, jobs |-> <<>>, now |-> 0,
     launched |-> 0, starts |-> 0]

\* no classification in progress
ClIdle ==
    [pc |-> "idle", client |-> FALSE, title |-> <<>>, description |-> <<>>,
     attempt |-> 0, calls |-> 0, failed |-> 0, sleeps |-> 0, answer |-> None,
     result |-> None]

Init ==
    /\ corpus = {}
    /\ clock = 0
    /\ pc = [r \in Runs |-> "idle"]
    /\ requested = [r \in Runs |-> <<>>]
    /\ todo = [r \in Runs |-> <<>>]
    /\ items = [r \in Runs |-> <<>>]
    /\ results = [r \in Runs |-> <<>>]
    /\ articles = 0
    /\ cl = ClIdle
    /\ art = ArtIdle
    /\ net = NetIdle
    /\ scr = ScrIdle
    /\ sch = SchIdle

\* a call of scrape_all_sources (run_scheduled_scrape):
\* for source_name, scraper in self.scrapers.items()
StartAll(r) ==
    /\ r = 1
    /\ pc[r] = "idle"
    /\ pc' = [pc EXCEPT ![r] = "running"]
    /\ requested' = [requested EXCEPT ![r] = ScraperKeys]
    /\ todo' = [todo EXCEPT ![r] = ScraperKeys]
    /\ UNCHANGED <<corpus, clock, items, results, articles, cl, art, net, scr, sch>>

\* a call of scrape_sources(source_names), from trigger_scrape
StartSome(r) ==
    /\ r = 2
    /\ pc[r] = "idle"
    /\ \E names \in RequestedLists :
        /\ requested' = [requested EXCEPT ![r] = names]
        /\ todo' = [todo EXCEPT ![r] = names]
    /\ pc' = [pc EXCEPT ![r] = "running"]
    /\ UNCHANGED <<corpus, clock, items, results, articles, cl, art, net, scr, sch>>

\* if source_name not in self.scrapers: results[...] = error; continue
UnknownSource(r) ==
    /\ pc[r] = "running" /\ todo[r] # <<>>
    /\ Head(todo[r]) \notin Scrapers
    /\ results' = [results EXCEPT
                      ![r] = (Head(todo[r]) :> ErrorEntry("not available")) @@ @]
    /\ todo' = [todo EXCEPT ![r] = Tail(@)]
    /\ UNCHANGED <<corpus, clock, pc, requested, items, articles, cl, art, net, scr, sch>>

\* inside scraper.scrape(): one article of the source yields a ThreatIntelItem
\* (articles that yield None leave the list as it is)
ScrapeArticle(r) ==
    /\ pc[r] = "running" /\ todo[r] # <<>>
    /\ Head(todo[r]) \in Scrapers
    /\ Len(items[r]) < MaxItems
    /\ articles < MaxArticles
    /\ \E url \in URLsOf(Head(todo[r])), amount \in AmountsOf(Head(todo[r])) :
        items' = [items EXCEPT ![r] = Append(@, NewItem(Head(todo[r]), url, amount, clock))]
    /\ articles' = articles + 1
    /\ UNCHANGED <<corpus, clock, pc, requested, todo, results, cl, art, net, scr, sch>>

\* items = await scraper.scrape() returns; saved_count = await
\* self._save_items_to_db(items, source_name); results[source_name] = ...
\* (_save_items_to_db never awaits, so no other task runs during it)
SaveBatch(r) ==
    /\ pc[r] = "running" /\ todo[r] # <<>>
    /\ Head(todo[r]) \in Scrapers
    /\ \E fault \in {NoFault} \cup (0 .. Len(items[r])) :
        LET src == Head(todo[r])
            save == SaveItems(corpus, items[r], src, clock, fault)
        IN /\ corpus' = save.db
           /\ IF Propagates(save.outcome)
              THEN /\ pc' = [pc EXCEPT ![r] = "raised"]
                   /\ UNCHANGED <<results, todo>>
              ELSE /\ results' = [results EXCEPT ![r] =
                          (src :> IF save.outcome = "committed"
                                  THEN SuccessEntry(items[r], save)
                                  ELSE ErrorEntry(save.outcome)) @@ @]
                   /\ todo' = [todo EXCEPT ![r] = Tail(@)]
                   /\ pc' = pc
    /\ items' = [items EXCEPT ![r] = <<>>]
    /\ UNCHANGED <<clock, requested, articles, cl, art, net, scr, sch>>

\* What is in the table after the task of a run is cancelled at an await of
\* scraper.scrape() (a fetch or a classification for some candidate is in flight):
\* asyncio.CancelledError is not an Exception, so it passes every "except Exception"
\* of fetch_page, _scrape_article, scrape and the manager, and _save_items_to_db is
\* not reached for the items scraped so far.
\* (OnCancelSavesBatch: the faulty variant that still saves them)
OnCancelSavesBatch(db, batch, source_name, now) ==
    SaveItems(db, batch, source_name, now, NoFault).db
OnCancel(db, batch, source_name, now) == db

\* the task of run r is cancelled while it awaits inside scraper.scrape(); the items
\* list is left behind as it was
Cancel(r) ==
    /\ pc[r] = "running" /\ todo[r] # <<>>
    /\ Head(todo[r]) \in Scrapers
    /\ corpus' = OnCancel(corpus, items[r], Head(todo[r]), clock)
    /\ pc' = [pc EXCEPT ![r] = "cancelled"]
    /\ UNCHANGED <<clock, requested, todo, items, results, articles, cl, art, net, scr, sch>>

\* return results
Return(r) ==
    /\ pc[r] = "running" /\ todo[r] = <<>>
    /\ pc' = [pc EXCEPT ![r] = "returned"]
    /\ UNCHANGED <<corpus, clock, requested, todo, items, results, articles, cl, art, net, scr, sch>>

\* time passes
Tick ==
    /\ clock < MaxClock
    /\ clock' = clock + 1
    /\ UNCHANGED <<corpus, pc, requested, todo, items, results, articles, cl, art, net, scr, sch>>

Next ==
    \/ \E r \in Runs : StartAll(r)
    \/ \E r \in Runs : StartSome(r)
    \/ \E r \in Runs : UnknownSource(r)
    \/ \E r \in Runs : ScrapeArticle(r)
    \/ \E r \in Runs : SaveBatch(r)
    \/ \E r \in Runs : Cancel(r)
    \/ \E r \in Runs : Return(r)
    \/ Tick

Spec == Init /\ [][Next]_vars

-----------------------------------------------------------------------------
(* ProtocolClassifier (SpecClassify) *)

\* self.max_retries
MaxRetries == 3

\* Text is modelled as a sequence of lower-case words; a protocol name as the sequence
\* of its words. The part of self.known_protocols that is modelled, as
\* sorted(self.known_protocols, key=len, reverse=True) lists it.
KnownByLength == << <<"trader", "joe">>, <<"curve">>, <<"aave">>, <<"joe">> >>

\* str.title() of a protocol name
TitleCase(p) ==
    IF p = <<"trader", "joe">> THEN "Trader Joe"
    ELSE IF p = <<"curve">> THEN "Curve"
    ELSE IF p = <<"aave">> THEN "Aave"
    ELSE "Joe"

\* w.startswith(p), w.endswith(p), p in w for the words used
StartsWith(w, p) == w = p \/ (w = "joey" /\ p = "joe")
EndsWith(w, p) == w = p
Contains(w, p) == w = p \/ (w = "joey" /\ p = "joe")

\* re.search(r'\b' + re.escape(protocol) + r'\b', text)
WholeWordMatch(p, text) ==
    \E i \in 1 .. Len(text) - Len(p) + 1 : \A k \in 1 .. Len(p) : text[i + k - 1] = p[k]

\* protocol in title_lower
SubstringMatch(p, text) ==
    IF Len(p) = 1 THEN \E i \in DOMAIN text : Contains(text[i], p[1])
    ELSE \E i \in 1 .. Len(text) - Len(p) + 1 :
            /\ EndsWith(text[i], p[1])
            /\ StartsWith(text[i + Len(p) - 1], p[Len(p)])
            /\ \A k \in 2 .. Len(p) - 1 : text[i + k - 1] = p[k]

\* the first protocol of KnownByLength[from..] that satisfies Match, title-cased
RECURSIVE FirstMatch(_, _, _)
FirstMatch(from, text, wholeWord) ==
    IF from > Len(KnownByLength) THEN None
    ELSE IF (IF wholeWord THEN WholeWordMatch(KnownByLength[from], text)
             ELSE SubstringMatch(KnownByLength[from], text))
    THEN Some(TitleCase(KnownByLength[from]))
    ELSE FirstMatch(from + 1, text, wholeWord)

\* _fallback_classification(title, description)
FallbackClassification(title, description) ==
    LET text == title \o description
        whole == FirstMatch(1, text, TRUE)
    IN IF whole # None THEN whole ELSE FirstMatch(1, title, FALSE)

\* answers of the chat completion (response.choices[0].message.content.strip())
Answers ==
    {"NONE", "Aave", "Aave Protocol", "Aave V3", "Uni", "Banana", "ethereum",
     "zap bridge"}

\* protocol.strip().lower() with "protocol", "finance", "defi", "network" removed
CleanOf(answer) ==
    IF answer \in {"Aave", "Aave Protocol"} THEN <<"aave">>
    ELSE IF answer = "Aave V3" THEN <<"aave", "v3">>
    ELSE IF answer = "Uni" THEN <<"uni">>
    ELSE IF answer = "Banana" THEN <<"banana">>
    ELSE IF answer = "NONE" THEN <<"none">>
    ELSE IF answer = "zap bridge" THEN <<"zap", "bridge">>
    ELSE <<"ethereum">>

\* protocol.strip().title() on these answers
StrTitle(answer) ==
    IF answer = "zap bridge" THEN "Zap Bridge"
    ELSE IF answer = "ethereum" THEN "Ethereum"
    ELSE IF answer = "NONE" THEN "None"
    ELSE answer

\* len() of a text given as its words, single spaces between them
RECURSIVE TextLen(_)
TextLen(text) ==
    IF text = <<>> THEN 0
    ELSE IF Len(text) = 1 THEN Len(text[1])
    ELSE Len(text[1]) + 1 + TextLen(Tail(text))

\* if protocol_clean in self.known_protocols: return protocol_clean.title()
DirectMatch(clean) ==
    IF \E i \in DOMAIN KnownByLength : KnownByLength[i] = clean
    THEN Some(TitleCase(clean)) ELSE None

\* the two elif branches of "for known in self.known_protocols:"
IsPartialMatch(known, clean) ==
    \/ /\ TextLen(known) > 3
       /\ SubstringMatch(known, clean)
       /\ TextLen(clean) <= TextLen(known) + 5
    \/ /\ TextLen(clean) > 3
       /\ SubstringMatch(clean, known)
       /\ TextLen(known) <= TextLen(clean) + 5

\* for known in self.known_protocols: ... return known.title()
\* (the set is iterated in no particular order; at most one modelled protocol is a
\* partial match of a modelled answer, so the order does not show)
PartialMatch(clean) ==
    LET hits == {i \in DOMAIN KnownByLength : IsPartialMatch(KnownByLength[i], clean)}
    IN IF hits = {} THEN None
       ELSE Some(TitleCase(KnownByLength[CHOOSE i \in hits : TRUE]))

\* for short, full in special_cases.items(): if short in protocol_clean ...
SpecialCase(clean) ==
    IF \E i \in DOMAIN clean : Contains(clean[i], "uni") THEN Some("Uniswap")
    ELSE IF \E i \in DOMAIN clean : Contains(clean[i], "sushi") THEN Some("Sushiswap")
    ELSE IF \E i \in DOMAIN clean : Contains(clean[i], "pancake") THEN Some("Pancakeswap")
    ELSE IF \E i \in DOMAIN clean :
                Contains(clean[i], "trader") \/ Contains(clean[i], "joe")
    THEN Some("Trader Joe")
    ELSE None

\* defi_indicators; any(indicator in protocol_clean for indicator in defi_indicators)
DefiIndicators ==
    {"swap", "dex", "lending", "dao", "yield", "farm", "bridge", "vault", "pool"}
HasDefiIndicator(clean) ==
    \E i \in DOMAIN clean : \E d \in DefiIndicators : Contains(clean[i], d)

\* protocol.istitle() and len(protocol) > 3 and
\* protocol not in ['None', 'The', 'This', 'That']
IsProperNoun(answer) == answer \in {"Aave", "Aave Protocol", "Aave V3", "Banana"}

\* _validate_protocol(protocol) on these answers
\* (ValidateProtocolAcceptsAll: the faulty variant that ends with
\*  "return protocol.strip()" instead of the last two tests)
ValidateProtocolAcceptsAll(answer) ==
    IF answer = "NONE" THEN None
    ELSE IF DirectMatch(CleanOf(answer)) # None THEN DirectMatch(CleanOf(answer))
    ELSE IF PartialMatch(CleanOf(answer)) # None THEN PartialMatch(CleanOf(answer))
    ELSE IF SpecialCase(CleanOf(answer)) # None THEN SpecialCase(CleanOf(answer))
    ELSE IF HasDefiIndicator(CleanOf(answer)) THEN Some(StrTitle(answer))
    ELSE Some(answer)
ValidateProtocol(answer) ==
    IF answer = "NONE" THEN None
    ELSE IF DirectMatch(CleanOf(answer)) # None THEN DirectMatch(CleanOf(answer))
    ELSE IF PartialMatch(CleanOf(answer)) # None THEN PartialMatch(CleanOf(answer))
    ELSE IF SpecialCase(CleanOf(answer)) # None THEN SpecialCase(CleanOf(answer))
    ELSE IF HasDefiIndicator(CleanOf(answer)) THEN Some(StrTitle(answer))
    ELSE IF IsProperNoun(answer) THEN Some(answer)
    ELSE None

\* titles and descriptions handed to classify_protocol
Titles ==
    { <<"aave", "exploit", "drains", "$10m">>, <<"trader", "joe", "hacked">>,
      <<"joey", "hacked">>, <<"market", "update">> }
Descriptions ==
    { <<"funds", "stolen">>, <<"curve", "pool", "drained">>, <<"the", "joe", "team">> }

\* if attempt == self.max_retries - 1
\* (IsLastAttemptOffByOne: the faulty variant comparing with max_retries)
IsLastAttemptOffByOne(attempt) == attempt = MaxRetries
IsLastAttempt(attempt) == attempt = MaxRetries - 1

\* classify_protocol(title, description) is called; self.client is set or not
\* (initialize() found OPENAI_API_KEY or not)
InitClassify ==
    /\ corpus = {}
    /\ clock = 0
    /\ pc = [r \in Runs |-> "idle"]
    /\ requested = [r \in Runs |-> <<>>]
    /\ todo = [r \in Runs |-> <<>>]
    /\ items = [r \in Runs |-> <<>>]
    /\ results = [r \in Runs |-> <<>>]
    /\ articles = 0
    /\ \E client \in BOOLEAN, title \in Titles, description \in Descriptions :
        cl = [ClIdle EXCEPT !.pc = "entry", !.client = client,
                            !.title = title, !.description = description]
    /\ art = ArtIdle
    /\ net = NetIdle
    /\ scr = ScrIdle
    /\ sch = SchIdle

\* the scrape runs take no step during a classification
IngestUnchanged ==
    UNCHANGED <<corpus, clock, pc, requested, todo, items, results, articles, art, net, scr, sch>>

\* if not self.client: return self._fallback_classification(title, description)
NoClient ==
    /\ cl.pc = "entry" /\ ~cl.client
    /\ cl' = [cl EXCEPT !.pc = "done",
                        !.result = FallbackClassification(cl.title, cl.description)]
    /\ IngestUnchanged

\* the prompt is built and the retry loop is entered
EnterLoop ==
    /\ cl.pc = "entry" /\ cl.client
    /\ cl' = [cl EXCEPT !.pc = "call", !.attempt = 0]
    /\ IngestUnchanged

\* an attempt succeeds: return self._validate_protocol(protocol)
CallSucceeds ==
    /\ cl.pc = "call"
    /\ \E answer \in Answers :
        cl' = [cl EXCEPT !.pc = "done", !.calls = @ + 1, !.answer = Some(answer),
                         !.result = ValidateProtocol(answer)]
    /\ IngestUnchanged

\* an attempt raises (API error, timeout, or a response without content)
CallFails ==
    /\ cl.pc = "call"
    /\ IF IsLastAttempt(cl.attempt)
       THEN cl' = [cl EXCEPT !.pc = "done", !.calls = @ + 1, !.failed = @ + 1,
                       !.result = FallbackClassification(cl.title, cl.description)]
       ELSE cl' = [cl EXCEPT !.pc = "sleep", !.calls = @ + 1, !.failed = @ + 1]
    /\ IngestUnchanged

\* await asyncio.sleep(1), then the next attempt of range(self.max_retries); a loop
\* that runs out ends the method without a return statement (None)
Sleep ==
    /\ cl.pc = "sleep"
    /\ IF cl.attempt + 1 < MaxRetries
       THEN cl' = [cl EXCEPT !.pc = "call", !.sleeps = @ + 1, !.attempt = @ + 1]
       ELSE cl' = [cl EXCEPT !.pc = "done", !.sleeps = @ + 1, !.result = None]
    /\ IngestUnchanged

NextClassify ==
    \/ NoClient
    \/ EnterLoop
    \/ CallSucceeds
    \/ CallFails
    \/ Sleep

SpecClassify == InitClassify /\ [][NextClassify]_vars

-----------------------------------------------------------------------------
(* Text and amounts, as BaseScraper's extraction helpers use them *)

\* s[i] as a string of one character
Ch(s, i) == SubSeq(s, i, i)

UpperCase == "ABCDEFGHIJKLMNOPQRSTUVWXYZ"
LowerCase == "abcdefghijklmnopqrstuvwxyz"

\* str.lower()
LowerCh(c) ==
    IF \E i \in 1 .. Len(UpperCase) : Ch(UpperCase, i) = c
    THEN Ch(LowerCase, CHOOSE i \in 1 .. Len(UpperCase) : Ch(UpperCase, i) = c)
    ELSE c
RECURSIVE Lower(_)
Lower(s) == IF s = "" THEN "" ELSE LowerCh(Ch(s, 1)) \o Lower(SubSeq(s, 2, Len(s)))

\* keyword in text
Occurs(keyword, text) ==
    \E i \in 1 .. Len(text) - Len(keyword) + 1 : SubSeq(text, i, i + Len(keyword) - 1) = keyword

\* any(keyword in text for keyword in keywords)
AnyOccurs(keywords, text) == \E k \in DOMAIN keywords : Occurs(keywords[k], text)

\* f"{title} {description}"
JoinText(title, description) == title \o " " \o description

\* A float that holds an amount of money is modelled exactly, as
\* hi * 1,000,000 + lo + c / 100 with 0 <= lo < 1,000,000 and 0 <= c < 100
\* (a float is exact on the integers below 2^53).
Million == 1000000
Norm(hi, lo, c) ==
    [hi |-> hi + ((lo + (c \div 100)) \div Million),
     lo |-> (lo + (c \div 100)) % Million,
     c |-> c % 100]
Dollars(n) == Norm(0, n, 0)
MillionsOf(n) == Norm(n, 0, 0)

\* a >= b, a > b on amounts
AmountGE(a, b) ==
    \/ a.hi > b.hi
    \/ a.hi = b.hi /\ a.lo > b.lo
    \/ a.hi = b.hi /\ a.lo = b.lo /\ a.c >= b.c
AmountGT(a, b) == AmountGE(a, b) /\ a # b

\* amount *= 1_000
Times1000(a) == Norm(a.hi * 1000, a.lo * 1000 + a.c * 10, 0)

\* if amount_lost: (None and 0.0 are false)
Truthy(amount) == amount # None /\ amount[1] # Dollars(0)

Digits == "0123456789"
IsDigit(c) == \E i \in 1 .. 10 : Ch(Digits, i) = c
DigitValue(c) == (CHOOSE i \in 1 .. 10 : Ch(Digits, i) = c) - 1
\* [\d,]
IsNumCh(c) == IsDigit(c) \/ c = ","
\* \s
IsSpace(c) == c \in {" ", "\t", "\n", "\r", "\f"}

\* float(s) for s made of digits with an optional ".dd": None stands for ValueError
RECURSIVE ParseDigits(_, _)
ParseDigits(s, acc) ==
    IF s = "" THEN acc
    ELSE ParseDigits(SubSeq(s, 2, Len(s)), Norm(acc.hi * 10, acc.lo * 10 + DigitValue(Ch(s, 1)), 0))
ParseFloat(s) ==
    LET hasCents == Len(s) >= 3 /\ Ch(s, Len(s) - 2) = "."
        whole == IF hasCents THEN SubSeq(s, 1, Len(s) - 3) ELSE s
    IN IF whole = "" THEN None
       ELSE LET w == ParseDigits(whole, Dollars(0))
            IN Some(IF hasCents
                    THEN Norm(w.hi, w.lo, 10 * DigitValue(Ch(s, Len(s) - 1))
                                              + DigitValue(Ch(s, Len(s))))
                    ELSE w)

\* s.replace(',', '')
RECURSIVE RemoveCommas(_)
RemoveCommas(s) ==
    IF s = "" THEN ""
    ELSE (IF Ch(s, 1) = "," THEN "" ELSE Ch(s, 1)) \o RemoveCommas(SubSeq(s, 2, Len(s)))

-----------------------------------------------------------------------------
(* BaseScraper.extract_amount_lost *)

\* the unit alternatives of the four patterns, in the order the patterns are tried;
\* the last pattern has no unit part
Patterns == << <<"million", "m">>, <<"billion", "b">>, <<"thousand", "k">>, <<>> >>

\* the last character of the longest run of [\d,] (of \s) that starts at i; i - 1 if
\* there is none
RECURSIVE NumRunEnd(_, _)
NumRunEnd(text, i) ==
    IF i <= Len(text) /\ IsNumCh(Ch(text, i)) THEN NumRunEnd(text, i + 1) ELSE i - 1
RECURSIVE SpaceRunEnd(_, _)
SpaceRunEnd(text, i) ==
    IF i <= Len(text) /\ IsSpace(Ch(text, i)) THEN SpaceRunEnd(text, i + 1) ELSE i - 1

\* text[e+1..e+3] is r'\.\d{2}'
DecimalsAt(text, e) ==
    /\ e + 3 <= Len(text)
    /\ Ch(text, e + 1) = "."
    /\ IsDigit(Ch(text, e + 2)) /\ IsDigit(Ch(text, e + 3))

\* The ways r'\$?([\d,]+(?:\.\d{2})?)\s*(?:u1|u2)' matches text at position i:
\* d: "$" taken, e: last character of [\d,]+, f: ".dd" taken, w: last character of
\* \s*, a: the unit alternative taken (0: the pattern has none), end: last character
MatchesAt(text, i, units) ==
    UNION { UNION { UNION {
        LET g == IF f THEN e + 3 ELSE e     \* last character of group 1
        IN IF units = <<>>
           THEN {[d |-> d, e |-> e, f |-> f, w |-> g, a |-> 0, end |-> g]}
           ELSE { m \in { [d |-> d, e |-> e, f |-> f, w |-> w, a |-> a,
                           end |-> w + Len(units[a])] :
                             w \in g .. SpaceRunEnd(text, g + 1), a \in DOMAIN units } :
                    /\ m.end <= Len(text)
                    /\ SubSeq(text, m.w + 1, m.end) = units[m.a] }
        : f \in {x \in BOOLEAN : x => DecimalsAt(text, e)} }
        : e \in (i + d) .. NumRunEnd(text, i + d) }
        : d \in {x \in {0, 1} : x = 1 => Ch(text, i) = "$"} }

\* the order in which the regex engine tries them: "$" first, the longer run of
\* [\d,] first, ".dd" first, the longer run of \s first, the earlier alternative first
Preferred(m, n) ==
    LET km == <<1 - m.d, 0 - m.e, IF m.f THEN 0 ELSE 1, 0 - m.w, m.a>>
        kn == <<1 - n.d, 0 - n.e, IF n.f THEN 0 ELSE 1, 0 - n.w, n.a>>
    IN \E j \in 1 .. 5 : km[j] < kn[j] /\ \A k \in 1 .. j - 1 : km[k] = kn[k]

\* the match at position i, as [group0, group1, end], or None
MatchAt(text, i, units) ==
    LET ms == MatchesAt(text, i, units)
    IN IF ms = {} THEN None
       ELSE LET m == CHOOSE x \in ms : \A y \in ms \ {x} : Preferred(x, y)
            IN Some([group0 |-> SubSeq(text, i, m.end),
                     group1 |-> SubSeq(text, i + m.d, IF m.f THEN m.e + 3 ELSE m.e),
                     end |-> m.end])

\* re.finditer(pattern, text_lower), from position pos on
RECURSIVE FindIter(_, _, _)
FindIter(text, pos, units) ==
    LET starts == {i \in pos .. Len(text) : MatchAt(text, i, units) # None}
    IN IF starts = {} THEN <<>>
       ELSE LET i == CHOOSE x \in starts : \A y \in starts : x <= y
                m == MatchAt(text, i, units)[1]
            IN <<m>> \o FindIter(text, m.end + 1, units)

\* the body of "for match in matches": the amount the match stands for, with the
\* multiplier applied; None stands for ValueError
MatchAmount(m) ==
    LET amount == ParseFloat(RemoveCommas(m.group1))
    IN IF amount = None THEN None
       ELSE IF Occurs("billion", m.group0) \/ Occurs("b", m.group0)
       THEN Some(Times1000(Times1000(Times1000(amount[1]))))
       ELSE IF Occurs("million", m.group0) \/ Occurs("m", m.group0)
       THEN Some(Times1000(Times1000(amount[1])))
       ELSE IF Occurs("thousand", m.group0) \/ Occurs("k", m.group0)
       THEN Some(Times1000(amount[1]))
       ELSE amount

\* if amount > 1000
\* (IsReasonableAmountOrEqual: the faulty variant with >=)
IsReasonableAmountOrEqual(amount) == AmountGE(amount, Dollars(1000))
IsReasonableAmount(amount) == AmountGT(amount, Dollars(1000))

\* the first match of matches[from..] whose amount is returned
RECURSIVE FirstReasonable(_, _)
FirstReasonable(matches, from) ==
    IF from > Len(matches) THEN None
    ELSE LET amount == MatchAmount(matches[from])
         IN IF amount # None /\ IsReasonableAmount(amount[1]) THEN amount
            ELSE FirstReasonable(matches, from + 1)

\* for pattern in patterns[p..]: ...; return None
RECURSIVE ExtractFrom(_, _)
ExtractFrom(text, p) ==
    IF p > Len(Patterns) THEN None
    ELSE LET found == FirstReasonable(FindIter(text, 1, Patterns[p]), 1)
         IN IF found # None THEN found ELSE ExtractFrom(text, p + 1)

\* extract_amount_lost(text)
ExtractAmountLost(text) == ExtractFrom(Lower(text), 1)

-----------------------------------------------------------------------------
(* BaseScraper.assess_risk_level, extract_tags; _calculate_severity_score *)

\* RiskLevel, and its order low < medium < high < critical
RiskLevels == {"low", "medium", "high", "critical"}
RiskRank(level) ==
    IF level = "low" THEN 1 ELSE IF level = "medium" THEN 2
    ELSE IF level = "high" THEN 3 ELSE 4

CriticalKeywords == <<"critical", "emergency", "immediate", "urgent", "exploit">>
HighKeywords == <<"hack", "attack", "vulnerability", "breach", "stolen", "drained">>
MediumKeywords == <<"warning", "risk", "issue", "concern", "potential">>

\* the part after "# Check keywords"
\* (KeywordRiskHighFirst: the faulty variant that tests high_keywords first)
KeywordRiskHighFirst(text) ==
    IF AnyOccurs(HighKeywords, text) THEN "high"
    ELSE IF AnyOccurs(CriticalKeywords, text) THEN "critical"
    ELSE IF AnyOccurs(MediumKeywords, text) THEN "medium"
    ELSE "low"
KeywordRisk(text) ==
    IF AnyOccurs(CriticalKeywords, text) THEN "critical"
    ELSE IF AnyOccurs(HighKeywords, text) THEN "high"
    ELSE IF AnyOccurs(MediumKeywords, text) THEN "medium"
    ELSE "low"

\* assess_risk_level(amount_lost=..., title=..., description=...)
\* (AssessRiskLevelKeywordsFirst: the faulty variant that looks at the keywords before
\* the amount)
AssessRiskLevelKeywordsFirst(amount_lost, title, description) ==
    LET text == Lower(JoinText(title, description))
    IN IF KeywordRisk(text) # "low" THEN KeywordRisk(text)
       ELSE IF Truthy(amount_lost) /\ AmountGE(amount_lost[1], MillionsOf(10)) THEN "critical"
       ELSE IF Truthy(amount_lost) /\ AmountGE(amount_lost[1], MillionsOf(1)) THEN "high"
       ELSE IF Truthy(amount_lost) /\ AmountGE(amount_lost[1], Dollars(100000)) THEN "medium"
       ELSE "low"
AssessRiskLevel(amount_lost, title, description) ==
    LET text == Lower(JoinText(title, description))
    IN IF Truthy(amount_lost) /\ AmountGE(amount_lost[1], MillionsOf(10)) THEN "critical"
       ELSE IF Truthy(amount_lost) /\ AmountGE(amount_lost[1], MillionsOf(1)) THEN "high"
       ELSE IF Truthy(amount_lost) /\ AmountGE(amount_lost[1], Dollars(100000)) THEN "medium"
       ELSE KeywordRisk(text)

\* tag_patterns, in the order of the dict
TagPatterns ==
    << [tag |-> "exploit", keywords |-> <<"exploit", "attack", "hack">>],
       [tag |-> "vulnerability", keywords |-> <<"vulnerability", "bug", "flaw">>],
       [tag |-> "defi", keywords |-> <<"defi", "decentralized finance">>],
       [tag |-> "smart_contract", keywords |-> <<"smart contract", "contract">>],
       [tag |-> "flash_loan", keywords |-> <<"flash loan", "flashloan">>],
       [tag |-> "rug_pull", keywords |-> <<"rug pull", "rugpull", "exit scam">>],
       [tag |-> "governance", keywords |-> <<"governance", "voting", "proposal">>],
       [tag |-> "oracle", keywords |-> <<"oracle", "price feed">>],
       [tag |-> "bridge", keywords |-> <<"bridge", "cross-chain">>],
       [tag |-> "token", keywords |-> <<"token", "cryptocurrency", "crypto">>] >>

\* the tags of TagPatterns[from..] whose keywords occur in text
RECURSIVE TagsFrom(_, _)
TagsFrom(text, from) ==
    IF from > Len(TagPatterns) THEN <<>>
    ELSE (IF AnyOccurs(TagPatterns[from].keywords, text)
          THEN <<TagPatterns[from].tag>> ELSE <<>>) \o TagsFrom(text, from + 1)

\* extract_tags(title, description)
ExtractTags(title, description) == TagsFrom(Lower(JoinText(title, description)), 1)

\* Scores are in tenths: 75 stands for 7.5.
\* base_score = {...}.get(risk_level, ...) of the adapter
BaseScore(key, level) ==
    IF key = "rekt"
    THEN (IF level = "low" THEN 20 ELSE IF level = "medium" THEN 50
          ELSE IF level = "high" THEN 75 ELSE 90)
    ELSE (IF level = "low" THEN 30 ELSE IF level = "medium" THEN 50
          ELSE IF level = "high" THEN 70 ELSE 85)

\* the amounts from which the adapter adds 1.0 and 0.5
BumpOneFrom(key) == IF key = "rekt" THEN MillionsOf(100) ELSE MillionsOf(50)
BumpHalfFrom(key) == IF key = "rekt" THEN MillionsOf(10) ELSE MillionsOf(5)

Min(a, b) == IF a <= b THEN a ELSE b

\* _calculate_severity_score(amount_lost, risk_level) of the adapter
\* (CalculateSeverityScoreSwapped: the faulty variant with the two increments swapped)
CalculateSeverityScoreSwapped(key, amount_lost, level) ==
    IF Truthy(amount_lost) /\ AmountGE(amount_lost[1], BumpOneFrom(key))
    THEN Min(100, BaseScore(key, level) + 5)
    ELSE IF Truthy(amount_lost) /\ AmountGE(amount_lost[1], BumpHalfFrom(key))
    THEN Min(100, BaseScore(key, level) + 10)
    ELSE BaseScore(key, level)
CalculateSeverityScore(key, amount_lost, level) ==
    IF Truthy(amount_lost) /\ AmountGE(amount_lost[1], BumpOneFrom(key))
    THEN Min(100, BaseScore(key, level) + 10)
    ELSE IF Truthy(amount_lost) /\ AmountGE(amount_lost[1], BumpHalfFrom(key))
    THEN Min(100, BaseScore(key, level) + 5)
    ELSE BaseScore(key, level)

-----------------------------------------------------------------------------
(* ProtocolClassifier.is_threat_intel_relevant *)

\* threat_keywords, as the list is written
ThreatKeywords ==
    <<"hack", "exploit", "attack", "breach", "vulnerability", "drained",
      "stolen", "loss", "rug pull", "exit scam", "flash loan", "oracle",
      "smart contract", "security", "incident", "compromised", "malicious",
      "phishing", "private key", "admin key", "backdoor", "bug", "rekt",
      "exploit", "drain", "manipulation", "sandwich", "mev", "front-run",
      "back-run", "slippage", "liquidation", "bad debt", "insolvency",
      "pause", "emergency", "halt", "freeze", "blacklist", "corrupted",
      "unable to withdraw", "funds trapped", "stuck", "locked">>

\* threat_score = sum(1 for keyword in threat_keywords if keyword in text)
ThreatScore(text) ==
    Cardinality({k \in DOMAIN ThreatKeywords : Occurs(ThreatKeywords[k], text)})

\* has_threat_indicators = threat_score > 0
\* (HasThreatIndicatorsAlways: the faulty variant that leaves the test out)
HasThreatIndicatorsAlways(threat_score) == TRUE
HasThreatIndicators(threat_score) == threat_score > 0

\* Confidence is in tenths: 4 stands for 0.4.
\* is_threat_intel_relevant(title, description), protocol being what
\* classify_protocol(title, description) returned
IsThreatIntelRelevant(title, description, protocol) ==
    IF protocol = None
    THEN [is_relevant |-> FALSE, protocol |-> None, confidence |-> 0, threat_score |-> 0]
    ELSE LET threat_score == ThreatScore(Lower(JoinText(title, description)))
             protocol_boost == IF Occurs(Lower(protocol[1]), Lower(title)) THEN 2 ELSE 0
             confidence == 3 + Min(threat_score, 5) + protocol_boost
         IN [is_relevant |-> confidence >= 4 /\ HasThreatIndicators(threat_score),
             protocol |-> protocol, confidence |-> confidence,
             threat_score |-> threat_score]

-----------------------------------------------------------------------------
(* RektScraper._scrape_article, ChainanalysisScraper._scrape_article (SpecArticle) *)

\* str(n)
RECURSIVE Dec(_)
Dec(n) == IF n < 10 THEN Ch(Digits, n + 1) ELSE Dec(n \div 10) \o Ch(Digits, (n % 10) + 1)

\* titles (_extract_title) and descriptions (_extract_description) of the pages served
MillionTitle(n) == "$" \o Dec(n) \o " million"
ThousandTitle(n) == Dec(n) \o "k"
ArticleTitles ==
    {"Protocol X Hacked for $5 Million", "Aave exploit", "Aave update", "Market report",
     "Exploit costs 50k", "Bridge drained of $150 million", "$2000 billion drained",
     "Hackers took $2 billion then $5 million"}
    \cup {MillionTitle(n) : n \in 1 .. MaxN}
    \cup {ThousandTitle(n) : n \in 1 .. MaxN}
ArticleDescriptions ==
    {"A flash loan exploit emptied the pool", "funds stolen", "quarterly summary",
     "lost funds 3 months ago"}

\* what classify_protocol returned for the article
Protocols == {None, Some("Aave"), Some("Protocol X")}

\* _scrape_article(url) has the title and the description of the page
InitArticle ==
    /\ corpus = {}
    /\ clock = 0
    /\ pc = [r \in Runs |-> "idle"]
    /\ requested = [r \in Runs |-> <<>>]
    /\ todo = [r \in Runs |-> <<>>]
    /\ items = [r \in Runs |-> <<>>]
    /\ results = [r \in Runs |-> <<>>]
    /\ articles = 0
    /\ cl = ClIdle
    /\ net = NetIdle
    /\ scr = ScrIdle
    /\ sch = SchIdle
    /\ \E key \in Scrapers, title \in ArticleTitles, description \in ArticleDescriptions,
          protocol \in Protocols :
        art = [pc |-> "extracted", key |-> key, title |-> title,
               description |-> description, classified |-> protocol,
               relevance |-> None, amount_lost |-> None, risk_level |-> None,
               tags |-> <<>>, severity_score |-> None]

\* only the article is worked on
OthersUnchanged ==
    UNCHANGED <<corpus, clock, pc, requested, todo, items, results, articles, cl, net, scr, sch>>

\* threat_intel_result = await protocol_classifier.is_threat_intel_relevant(...)
\* if not threat_intel_result['is_relevant']: return None
CheckRelevance ==
    /\ art.pc = "extracted"
    /\ LET result == IsThreatIntelRelevant(art.title, art.description, art.classified)
       IN art' = [art EXCEPT !.relevance = Some(result),
                             !.pc = IF result.is_relevant THEN "relevant" ELSE "dropped"]
    /\ OthersUnchanged

\* amount_lost = self.extract_amount_lost(f"{title} {description}")
ExtractAmount ==
    /\ art.pc = "relevant"
    /\ art' = [art EXCEPT !.pc = "amount",
                  !.amount_lost = ExtractAmountLost(JoinText(art.title, art.description))]
    /\ OthersUnchanged

\* risk_level = self.assess_risk_level(amount_lost=..., title=..., description=...)
AssessRisk ==
    /\ art.pc = "amount"
    /\ art' = [art EXCEPT !.pc = "risk",
                  !.risk_level = Some(AssessRiskLevel(art.amount_lost, art.title,
                                                      art.description))]
    /\ OthersUnchanged

\* tags = self.extract_tags(title, description); the Chainalysis adapter adds its own
TagArticle ==
    /\ art.pc = "risk"
    /\ art' = [art EXCEPT !.pc = "tags",
                  !.tags = ExtractTags(art.title, art.description)
                           \o (IF art.key = "chainalysis" THEN <<"analysis", "research">>
                               ELSE <<>>)]
    /\ OthersUnchanged

\* return ThreatIntelItem(..., severity_score=self._calculate_severity_score(...), ...)
BuildItem ==
    /\ art.pc = "tags"
    /\ art' = [art EXCEPT !.pc = "built",
                  !.severity_score = Some(CalculateSeverityScore(art.key, art.amount_lost,
                                                                 art.risk_level[1]))]
    /\ OthersUnchanged

NextArticle ==
    \/ CheckRelevance
    \/ ExtractAmount
    \/ AssessRisk
    \/ TagArticle
    \/ BuildItem

SpecArticle == InitArticle /\ [][NextArticle]_vars

-----------------------------------------------------------------------------
(* BaseScraper.fetch_page under concurrent scrape invocations (SpecFetch) *)

\* self.rate_limit_delay, in seconds; it is set in BaseScraper.__init__ only (the
\* "rate_limit" entries of Settings.sources_config are read nowhere)
RateLimitDelay == 1

\* Two scrape invocations run as tasks of the one event loop (two requests to
\* POST /api/v1/scrape); each works on the adapter of one source and calls fetch_page
\* for one page after the other. The adapter object and its session are shared.
InitFetch ==
    /\ corpus = {}
    /\ clock = 0
    /\ pc = [r \in Runs |-> "idle"]
    /\ requested = [r \in Runs |-> <<>>]
    /\ todo = [r \in Runs |-> <<>>]
    /\ items = [r \in Runs |-> <<>>]
    /\ results = [r \in Runs |-> <<>>]
    /\ articles = 0
    /\ cl = ClIdle
    /\ art = ArtIdle
    /\ \E src \in [Runs -> Scrapers] :
        net = [pc |-> "open", now |-> 0, src |-> src,
               run |-> [r \in Runs |-> [pc |-> "idle", wake |-> 0, fetched |-> 0]],
               gets |-> <<>>]
    /\ scr = ScrIdle
    /\ sch = SchIdle

\* only fetch_page calls are looked at
FetchOthersUnchanged ==
    UNCHANGED <<corpus, clock, pc, requested, todo, items, results, articles, cl, art,
                scr, sch>>

\* fetch_page(url) is called: await asyncio.sleep(self.rate_limit_delay)
WakeTime(now, gets, src) == now + RateLimitDelay

FetchPage(r) ==
    /\ net.pc = "open"
    /\ net.run[r].pc = "idle"
    /\ net.run[r].fetched < MaxFetches
    /\ net' = [net EXCEPT !.run[r].pc = "sleeping",
                          !.run[r].wake = WakeTime(net.now, net.gets, net.src[r])]
    /\ FetchOthersUnchanged

\* the sleep is over: self.session.get(url, **kwargs) sends the request
Get(r) ==
    /\ net.pc = "open"
    /\ net.run[r].pc = "sleeping"
    /\ net.now >= net.run[r].wake
    /\ net' = [net EXCEPT !.run[r].pc = "requesting",
                          !.gets = Append(@, [src |-> net.src[r], t |-> net.now, run |-> r])]
    /\ FetchOthersUnchanged

\* the response (any status), a timeout or another error arrives: fetch_page returns
\* the content or None
Respond(r) ==
    /\ net.pc = "open"
    /\ net.run[r].pc = "requesting"
    /\ net' = [net EXCEPT !.run[r].pc = "idle", !.run[r].fetched = @ + 1]
    /\ FetchOthersUnchanged

\* a second passes
TickFetch ==
    /\ net.pc = "open"
    /\ net.now < MaxTime
    /\ net' = [net EXCEPT !.now = @ + 1]
    /\ FetchOthersUnchanged

NextFetch ==
    \/ \E r \in Runs : FetchPage(r)
    \/ \E r \in Runs : Get(r)
    \/ \E r \in Runs : Respond(r)
    \/ TickFetch

SpecFetch == InitFetch /\ [][NextFetch]_vars

-----------------------------------------------------------------------------
(* RektScraper.scrape, ChainanalysisScraper.scrape (SpecScrape) *)

\* article_links[:20] and article_links[:15]
RektLimit == 20
ChainalysisLimit == 15
Limit(key) == IF key = "rekt" THEN RektLimit ELSE ChainalysisLimit

\* self.base_url
BaseURL(key) ==
    IF key = "rekt" THEN "https://rekt.news" ELSE "https://blog.chainalysis.com"

\* s.startswith(prefix)
HasPrefix(s, prefix) == Len(s) >= Len(prefix) /\ SubSeq(s, 1, Len(prefix)) = prefix

\* urljoin(self.base_url, link), for a link that is an absolute path or an absolute URL
URLJoin(base, link) == IF HasPrefix(link, "/") THEN base \o link ELSE link

\* The anchors soup.select finds on the main page, selector after selector, each with
\* its href and with whether its text holds one of Chainalysis' relevant_keywords.
\* Pages served: none; one with more articles than the adapter reads; one with repeated
\* anchors and anchors the adapter leaves out; for Chainalysis one that links an article
\* by its path and by its URL.
Pages(key) ==
    LET path(n) == (IF key = "rekt" THEN "/" ELSE "/blog/") \o "a" \o Dec(n)
        anchor(href) == [href |-> href, relevant |-> TRUE]
    IN { <<>>,
         [n \in 1 .. Limit(key) + 1 |-> anchor(path(n))],
         << anchor(path(1)), anchor("/?tag=defi"), anchor(path(2)), anchor("/"),
            [href |-> path(3), relevant |-> FALSE], anchor(path(1)),
            anchor(path(2) \o "?page=2") >> }
       \cup (IF key = "rekt" THEN {}
             ELSE { << anchor(path(1)), anchor(BaseURL(key) \o path(1)),
                       anchor(path(2)) >> })

\* the tests an anchor passes before its href is appended to links
KeepLink(key, a) ==
    IF key = "rekt"
    THEN /\ HasPrefix(a.href, "/") /\ ~HasPrefix(a.href, "/?") /\ a.href # "/"
         /\ ~Occurs("tag=", a.href) /\ ~Occurs("page=", a.href)
    ELSE a.relevant

\* _extract_article_links(soup), _extract_relevant_article_links(soup) over
\* anchors[1..n]: "if href not in links: links.append(href)"
RECURSIVE ExtractLinks(_, _, _)
ExtractLinks(key, anchors, n) ==
    IF n = 0 THEN <<>>
    ELSE LET links == ExtractLinks(key, anchors, n - 1)
         IN IF /\ KeepLink(key, anchors[n])
               /\ \A k \in DOMAIN links : links[k] # anchors[n].href
            THEN Append(links, anchors[n].href)
            ELSE links

\* article_links[:20], article_links[:15]
\* (ArticleLinksUncapped: the faulty variant that iterates over every link)
ArticleLinksUncapped(key, links) == links
ArticleLinks(key, links) == SubSeq(links, 1, Min(Len(links), Limit(key)))

\* scrape() is called on an initialized adapter; the main page is one of Pages(key)
InitScrape ==
    /\ corpus = {}
    /\ clock = 0
    /\ pc = [r \in Runs |-> "idle"]
    /\ requested = [r \in Runs |-> <<>>]
    /\ todo = [r \in Runs |-> <<>>]
    /\ items = [r \in Runs |-> <<>>]
    /\ results = [r \in Runs |-> <<>>]
    /\ articles = 0
    /\ cl = ClIdle
    /\ art = ArtIdle
    /\ net = NetIdle
    /\ \E key \in Scrapers : \E anchors \in Pages(key) :
        scr = [pc |-> "start", key |-> key, anchors |-> anchors, links |-> <<>>,
               slice |-> <<>>, i |-> 0, target |-> 0, calls |-> 0, gets |-> 0,
               requests |-> 0, content |-> None, fetched |-> <<>>, outstanding |-> 0,
               items |-> <<>>, skipped |-> 0, failedAt |-> <<>>]
    /\ sch = SchIdle

\* only the scrape() call is looked at
ScrapeOthersUnchanged ==
    UNCHANGED <<corpus, clock, pc, requested, todo, items, results, articles, cl, art,
                net, sch>>

\* content = await self.fetch_page(main_page_url)
FetchMain ==
    /\ scr.pc = "start"
    /\ scr' = [scr EXCEPT !.pc = "sleeping", !.target = 0, !.calls = @ + 1, !.gets = 0]
    /\ ScrapeOthersUnchanged

\* for link in article_links[:n]: article_url = urljoin(self.base_url, link);
\* _scrape_article(article_url): content = await self.fetch_page(url)
FetchArticle ==
    /\ scr.pc = "loop" /\ scr.i < Len(scr.slice)
    /\ scr' = [scr EXCEPT !.pc = "sleeping", !.target = scr.i + 1, !.calls = @ + 1,
                          !.gets = 0]
    /\ ScrapeOthersUnchanged

\* fetch_page: the sleep is over, self.session.get(url) is entered
GetPage ==
    /\ scr.pc = "sleeping"
    /\ scr' = [scr EXCEPT !.pc = "requesting", !.gets = @ + 1, !.requests = @ + 1,
                  !.fetched = IF scr.target = 0 THEN @
                              ELSE Append(@, URLJoin(BaseURL(scr.key),
                                                     scr.slice[scr.target]))]
    /\ ScrapeOthersUnchanged

\* the article in hand gives no item: _scrape_article returns None, "if article_item:"
\* fails and the for loop goes on
\* (SkipArticleAborts: the faulty variant in which a failure ends the loop)
SkipArticleAborts(s) == [s EXCEPT !.pc = "returned", !.skipped = @ + 1]
SkipArticle(s) == [s EXCEPT !.pc = "loop", !.i = @ + 1, !.skipped = @ + 1]

\* fetch_page returns: the text of a 200 response, None for another status, None when
\* the request raised (timeout, connection error). Then, for the main page,
\* "if not content: return items", else the links are extracted; for an article,
\* "if not content: return None".
RespondPage ==
    /\ scr.pc = "requesting"
    /\ \E outcome \in {"200", "other status", "raised"} :
        LET content == IF outcome = "200" THEN Some("html") ELSE None
            links == ExtractLinks(scr.key, scr.anchors, Len(scr.anchors))
        IN IF scr.target = 0
           THEN IF content = None
                THEN scr' = [scr EXCEPT !.pc = "returned", !.content = content]
                ELSE scr' = [scr EXCEPT !.pc = "loop", !.content = content,
                                        !.links = links,
                                        !.slice = ArticleLinks(scr.key, links)]
           ELSE IF content = None
                THEN /\ scr.skipped < MaxSkips
                     /\ scr' = [SkipArticle(scr) EXCEPT !.content = content,
                                    !.failedAt = Append(@, scr.target)]
                ELSE scr' = [scr EXCEPT !.pc = "extract", !.content = content]
    /\ ScrapeOthersUnchanged

\* title and description are extracted; "if not title or not description: return None",
\* else await protocol_classifier.is_threat_intel_relevant(title, description)
ExtractArticle ==
    /\ scr.pc = "extract"
    /\ \E complete \in BOOLEAN :
        IF complete
        THEN scr' = [scr EXCEPT !.pc = "classify", !.outstanding = @ + 1]
        ELSE /\ scr.skipped < MaxSkips
             /\ scr' = SkipArticle(scr)
    /\ ScrapeOthersUnchanged

\* the classification returns; "if not threat_intel_result['is_relevant']: return
\* None", else the item is built and items.append(article_item)
ClassifiedArticle ==
    /\ scr.pc = "classify"
    /\ \E relevant \in BOOLEAN :
        IF relevant
        THEN scr' = [scr EXCEPT !.pc = "loop", !.i = @ + 1, !.outstanding = @ - 1,
                         !.items = Append(@, scr.fetched[Len(scr.fetched)])]
        ELSE /\ scr.skipped < MaxSkips
             /\ scr' = [SkipArticle(scr) EXCEPT !.outstanding = @ - 1]
    /\ ScrapeOthersUnchanged

\* the for loop is over: return items
ReturnItems ==
    /\ scr.pc = "loop" /\ scr.i >= Len(scr.slice)
    /\ scr' = [scr EXCEPT !.pc = "returned"]
    /\ ScrapeOthersUnchanged

NextScrape ==
    \/ FetchMain
    \/ FetchArticle
    \/ GetPage
    \/ RespondPage
    \/ ExtractArticle
    \/ ClassifiedArticle
    \/ ReturnItems

SpecScrape == InitScrape /\ [][NextScrape]_vars

-----------------------------------------------------------------------------
(* BackgroundScheduler (SpecScheduler); time in hours *)

\* schedule.every(4).hours
Interval == 4

\* start_background_tasks() has initialized the scheduler; start() not called yet
InitScheduler ==
    /\ corpus = {}
    /\ clock = 0
    /\ pc = [r \in Runs |-> "idle"]
    /\ requested = [r \in Runs |-> <<>>]
    /\ todo = [r \in Runs |-> <<>>]
    /\ items = [r \in Runs |-> <<>>]
    /\ results = [r \in Runs |-> <<>>]
    /\ articles = 0
    /\ cl = ClIdle
    /\ art = ArtIdle
    /\ net = NetIdle
    /\ scr = ScrIdle
    /\ sch = SchIdle

\* only the scheduler is looked at
SchedulerOthersUnchanged ==
    UNCHANGED <<corpus, clock, pc, requested, todo, items, results, articles, cl, art,
                net, scr>>

\* start(), called on the event loop: if not self.running: self.running = True;
\* setup_schedule() adds a job due in 4 hours to the module-wide scheduler;
\* asyncio.create_task(self.run_scheduled_scrape()); a Thread runs run_scheduler
Start ==
    /\ sch.starts < MaxStarts
    /\ IF sch.running
       THEN sch' = [sch EXCEPT !.starts = @ + 1]
       ELSE sch' = [sch EXCEPT !.starts = @ + 1, !.running = TRUE,
                               !.jobs = Append(@, sch.now + Interval),
                               !.launched = @ + 1, !.threads = @ + 1]
    /\ SchedulerOthersUnchanged

\* stop(): self.running = False; self.thread.join(timeout=5) gives up long before the
\* thread wakes from its sleep of 60 seconds
Stop ==
    /\ sch.running
    /\ sch' = [sch EXCEPT !.running = FALSE]
    /\ SchedulerOthersUnchanged

\* some job of the scheduler is due
JobDue(s) == \E k \in DOMAIN s.jobs : s.jobs[k] <= s.now

\* schedule.run_pending() in a loop thread with a job due: the job is
\* "lambda: asyncio.create_task(self.run_scheduled_scrape())"; the thread has no
\* running event loop, asyncio.create_task raises RuntimeError, schedule lets the
\* exception of a job through, and it ends run_scheduler and the thread. No scrape is
\* launched, the job is not rescheduled and self.running stays True.
RunPending(s) == [s EXCEPT !.threads = @ - 1, !.crashed = @ + 1]

\* a loop thread is at "while self.running:" after its sleep
Poll ==
    /\ sch.threads > 0
    /\ IF ~sch.running THEN sch' = [sch EXCEPT !.threads = @ - 1]
       ELSE IF JobDue(sch) THEN sch' = RunPending(sch)
       ELSE sch' = sch
    /\ SchedulerOthersUnchanged

\* an hour passes
TickHour ==
    /\ sch.now < MaxHours
    /\ sch' = [sch EXCEPT !.now = @ + 1]
    /\ SchedulerOthersUnchanged

NextScheduler ==
    \/ Start
    \/ Stop
    \/ Poll
    \/ TickHour

SpecScheduler == InitScheduler /\ [][NextScheduler]_vars

-----------------------------------------------------------------------------
(* Properties of the ingest (Spec) *)

RowsFor(db, url) == {row \in db : row.source_url = url}
BatchURLs(batch) == {batch[i].source_url : i \in DOMAIN batch}
NoDuplicateURL(batch) ==
    \A i, j \in DOMAIN batch : i # j => batch[i].source_url # batch[j].source_url

\* the step is run r's scraper.scrape() returning and _save_items_to_db running
IsSave(r) ==
    /\ pc[r] = "running" /\ todo[r] # <<>>
    /\ Head(todo[r]) \in Scrapers
    /\ (todo'[r] = Tail(todo[r]) \/ pc'[r] = "raised")

\* ... and the batch was committed
IsCommittedSave(r) ==
    /\ IsSave(r)
    /\ pc'[r] # "raised"
    /\ results'[r][Head(todo[r])].status = "success"

\* ... and the batch failed
IsFailedSave(r) ==
    /\ IsSave(r)
    /\ (pc'[r] = "raised" \/ results'[r][Head(todo[r])].status = "error")

\* some stored row has been through an applied update (only the update path writes
\* an adapter's display name into source_name)
SomeRowUpdated == \E row \in corpus : row.source_name \notin Scrapers

\* some committed batch left a candidate alone (saved_count < len(items))
SomeCandidateSkipped ==
    \E r \in Runs : \E src \in DOMAIN results[r] :
        /\ results[r][src].status = "success"
        /\ results[r][src].items_saved < results[r][src].items_scraped

\* C1: in a committed batch, a stored record of a candidate's URL is modified only if
\* some candidate of that URL has a scraped_date strictly newer than the stored one
\* (otherwise the stored record, scrape timestamp included, stays as it was); a
\* candidate whose URL has no record leaves exactly one record for that URL.
C1_TimestampGatedUpsert ==
    [][\A r \in Runs : IsCommittedSave(r) =>
        \A i \in DOMAIN items[r] :
            LET url == items[r][i].source_url
                before == RowsFor(corpus, url)
                newer == {j \in DOMAIN items[r] :
                            /\ items[r][j].source_url = url
                            /\ \E e \in before : items[r][j].scraped_date > e.scraped_date}
            IN IF before = {}
               THEN Cardinality(RowsFor(corpus', url)) = 1
               ELSE /\ (RowsFor(corpus', url) # before => newer # {})
                    /\ (newer = {} => RowsFor(corpus', url) = before)]_vars

C1_Witness == SomeRowUpdated /\ SomeCandidateSkipped

\* C2: whenever an update is applied to a stored record, the id is kept, every field
\* whose candidate value is null keeps its stored value, and the other fields take the
\* candidate's value.
C2_NullPreservingMerge ==
    [][\A r \in Runs : IsCommittedSave(r) =>
        \A e \in corpus : e \notin corpus' =>
            \E i \in DOMAIN items[r] : \E n \in RowsFor(corpus', e.source_url) :
                LET c == items[r][i]
                IN /\ c.source_url = e.source_url
                   /\ c.scraped_date > e.scraped_date
                   /\ n.id = e.id
                   /\ n.amount_lost = IF c.amount_lost = None THEN e.amount_lost
                                      ELSE c.amount_lost
                   /\ n.title = c.title
                   /\ n.source_url = c.source_url
                   /\ n.source_name = c.source_name]_vars

\* a row last written by an update from the Chainalysis adapter (whose candidates carry
\* no loss amount) still holds the amount stored before
C2_Witness ==
    \E row \in corpus : row.source_name = "Chainalysis" /\ row.amount_lost # None

\* C3: after a batch is committed, ingesting one of its candidates again (same URL,
\* same values, same scrape timestamp), or the whole batch again, at the same or any
\* later time leaves the corpus exactly as it was.
C3_IngestIdempotent ==
    [][\A r \in Runs : IsCommittedSave(r) =>
        \A t \in clock' .. MaxClock + 1 :
            /\ SaveItems(corpus', items[r], Head(todo[r]), t, NoFault).db = corpus'
            /\ \A i \in DOMAIN items[r] :
                SaveItems(corpus', <<items[r][i]>>, Head(todo[r]), t, NoFault).db = corpus']_vars

C3_Witness ==
    \E r \in Runs : \E src \in DOMAIN results[r] :
        /\ results[r][src].status = "success"
        /\ results[r][src].items_saved = 2
        /\ SomeRowUpdated

\* C4: a candidate for a stored URL with a strictly later scrape timestamp and exactly
\* one new non-null field (amount_lost; its other fields as originally scraped) changes
\* only that field and the scrape timestamp; source_name and the rest keep their values.
C4_OnlyNewFieldChanges ==
    [][\A r \in Runs : IsCommittedSave(r) =>
        \A i \in DOMAIN items[r] : \A e \in RowsFor(corpus, items[r][i].source_url) :
            LET c == items[r][i]
            IN (/\ \A j \in DOMAIN items[r] : j # i => items[r][j].source_url # c.source_url
                /\ c.scraped_date > e.scraped_date
                /\ c.amount_lost # None /\ e.amount_lost = None
                /\ c.title = e.title
                /\ c.source_name \in {e.source_name, DisplayName(e.source_name)})
               => \E n \in RowsFor(corpus', c.source_url) :
                    /\ n.amount_lost = c.amount_lost
                    /\ \A key \in Fields \ {"amount_lost", "scraped_date"} :
                        n[key] = e[key]]_vars

\* C5: two batches holding candidates for one URL with different scrape timestamps
\* leave the same record for that URL whichever batch is saved first.
C5_MergeCommutes ==
    (/\ pc[1] = "running" /\ pc[2] = "running"
     /\ todo[1] # <<>> /\ todo[2] # <<>>
     /\ Head(todo[1]) \in Scrapers /\ Head(todo[2]) \in Scrapers)
    => LET a == SaveItems(corpus, items[1], Head(todo[1]), clock, NoFault)
           ab == SaveItems(a.db, items[2], Head(todo[2]), clock, NoFault)
           b == SaveItems(corpus, items[2], Head(todo[2]), clock, NoFault)
           ba == SaveItems(b.db, items[1], Head(todo[1]), clock, NoFault)
       IN \A i \in DOMAIN items[1] : \A j \in DOMAIN items[2] :
            (/\ items[1][i].source_url = items[2][j].source_url
             /\ items[1][i].scraped_date # items[2][j].scraped_date
             /\ ab.outcome = "committed" /\ ba.outcome = "committed")
            => RowsFor(ab.db, items[1][i].source_url)
                 = RowsFor(ba.db, items[1][i].source_url)

\* C6: a batch whose save fails leaves the corpus as it was before the call and the
\* error reaches the caller (an error entry for the source, or the exception itself);
\* a batch that commits leaves a record for every candidate URL.
C6_BatchAtomic ==
    [][\A r \in Runs :
        /\ IsFailedSave(r) => corpus' = corpus
        /\ (IsSave(r) /\ corpus' # corpus) => IsCommittedSave(r)
        /\ IsCommittedSave(r) =>
            \A url \in BatchURLs(items[r]) : RowsFor(corpus', url) # {}]_vars

C6_Witness ==
    /\ \E r \in Runs : \E src \in DOMAIN results[r] :
        /\ results[r][src].status = "error"
        /\ results[r][src].error = "operational_error"
    /\ corpus # {}

\* C7: the corpus holds at most one record per source URL, every record's id is the
\* MD5 of its source URL, and a record's id never changes once it exists.
C7_OneRecordPerURL ==
    /\ [](\A x, y \in corpus : x.source_url = y.source_url => x = y)
    /\ [](\A x \in corpus : x.id = MD5(x.source_url))
    /\ [][\A x \in corpus : \E y \in corpus' :
            y.source_url = x.source_url /\ y.id = x.id]_vars

C7_Witness == Cardinality(corpus) = 2 /\ SomeRowUpdated

Handled(r) ==
    {requested[r][i] : i \in 1 .. (Len(requested[r]) - Len(todo[r]))}

WellFormedEntry(e) ==
    \/ /\ DOMAIN e = {"status", "items_scraped", "items_saved"}
       /\ e.status = "success"
       /\ e.items_saved \in 0 .. e.items_scraped
    \/ /\ DOMAIN e = {"status", "error"}
       /\ e.status = "error"

\* C9: a scrape run never raises; it holds exactly one well-formed entry per source
\* handled so far, whatever happened to the sources before, and returns with one entry
\* per requested source.
C9_RunAlwaysCompletes ==
    \A r \in Runs :
        /\ pc[r] # "raised"
        /\ pc[r] \in {"running", "returned"} =>
            /\ DOMAIN results[r] = Handled(r)
            /\ \A src \in DOMAIN results[r] : WellFormedEntry(results[r][src])
        /\ pc[r] = "returned" =>
            DOMAIN results[r] = {requested[r][i] : i \in DOMAIN requested[r]}

C9_Witness ==
    /\ pc[1] = "returned" /\ pc[2] = "returned"
    /\ results[1]["rekt"].status = "error"
    /\ results[1]["chainalysis"].status = "success"
    /\ results[1]["chainalysis"].items_saved = 1
    /\ "bogus" \in DOMAIN results[2]
    /\ results[2]["bogus"].status = "error"
    /\ results[2]["chainalysis"].status = "success"

-----------------------------------------------------------------------------
(* Properties of cancellation and of the table's contents (Spec) *)

\* a row with every column filled in as _save_items_to_db fills it
WholeRow(row) ==
    /\ DOMAIN row = Fields
    /\ row.source_url \in URLs
    /\ row.id = MD5(row.source_url)
    /\ row.title = TitleOf(row.source_url)
    /\ row.source_name \in Scrapers \cup {DisplayName(key) : key \in Scrapers}
    /\ row.scraped_date \in 0 .. MaxClock
    /\ row.amount_lost \in Amounts

\* C19: the step that cancels a scrape run leaves the corpus as it is; from then on the
\* run stays cancelled with the items it had scraped and every later change of the
\* corpus is another run's committed batch; and the corpus never holds a partially
\* written record.
C19_CancelDropsCandidate ==
    /\ [][\A r \in Runs :
            (pc[r] # "cancelled" /\ pc'[r] = "cancelled") => corpus' = corpus]_vars
    /\ [][\A r \in Runs : pc[r] = "cancelled" =>
            /\ pc'[r] = "cancelled" /\ items'[r] = items[r] /\ results'[r] = results[r]
            /\ corpus' # corpus => \E o \in Runs \ {r} : IsCommittedSave(o)]_vars
    /\ [](\A row \in corpus : WholeRow(row))

\* a run was cancelled with scraped items whose URL has no record, others are stored
C19_Witness ==
    \E r \in Runs :
        /\ pc[r] = "cancelled"
        /\ \E url \in BatchURLs(items[r]) : RowsFor(corpus, url) = {}
        /\ corpus # {}

\* C20: no step, a failed and rolled-back batch and a cancellation included, removes a
\* source URL from the corpus.
C20_NeverDeletes ==
    [][\A row \in corpus : RowsFor(corpus', row.source_url) # {}]_vars

\* run 1 committed its first batch and then had its second batch rolled back
C20_Witness ==
    /\ "rekt" \in DOMAIN results[1] /\ "chainalysis" \in DOMAIN results[1]
    /\ results[1]["rekt"].status = "success" /\ results[1]["rekt"].items_saved = 1
    /\ results[1]["chainalysis"].status = "error"
    /\ results[1]["chainalysis"].error = "integrity_error"
    /\ corpus # {}

\* the save of run r failed with a database error other than a constraint violation
IsOperationalFailure(r) ==
    /\ IsFailedSave(r)
    /\ pc'[r] # "raised"
    /\ results'[r][Head(todo[r])].error = "operational_error"

\* the candidates of batch that are strictly newer than a stored record of url
NewerCandidates(db, batch, url) ==
    {j \in DOMAIN batch :
        /\ batch[j].source_url = url
        /\ \E e \in RowsFor(db, url) : batch[j].scraped_date > e.scraped_date}

\* C21: the stored scrape timestamp of a URL never decreases; a committed batch sets it
\* to the time of the save when it inserts the record and when it applies an update
\* (which strictly advances it), and leaves it as it was when no candidate of the URL
\* is newer than the record; a batch that is rolled back changes no timestamp.
C21_TimestampMonotonic ==
    [][/\ \A row \in corpus : \A after \in RowsFor(corpus', row.source_url) :
            after.scraped_date >= row.scraped_date
       /\ \A r \in Runs : IsFailedSave(r) => \A row \in corpus : row \in corpus'
       /\ \A r \in Runs : IsCommittedSave(r) =>
            \A url \in BatchURLs(items[r]) :
                LET before == RowsFor(corpus, url)
                    after == RowsFor(corpus', url)
                IN /\ after # {}
                   /\ IF before = {}
                      THEN \A a \in after : a.scraped_date = clock
                      ELSE IF NewerCandidates(corpus, items[r], url) # {}
                      THEN \A e \in before, a \in after :
                              a.scraped_date = clock /\ a.scraped_date > e.scraped_date
                      ELSE \A e \in before, a \in after :
                              a.scraped_date = e.scraped_date]_vars

\* a record's timestamp was advanced by an update, a later batch was rolled back
C21_Witness ==
    /\ \E row \in corpus : row.source_name \notin Scrapers /\ row.scraped_date > 0
    /\ \E r \in Runs : \E src \in DOMAIN results[r] : results[r][src].status = "error"

\* C29: a batch holding two candidates of one source URL, saved without a database
\* fault, is committed and leaves exactly one record for each of its URLs.
C29_DuplicateInBatchCommits ==
    [][\A r \in Runs :
        (IsSave(r) /\ ~NoDuplicateURL(items[r]) /\ ~IsOperationalFailure(r)) =>
            /\ IsCommittedSave(r)
            /\ \A url \in BatchURLs(items[r]) :
                    Cardinality(RowsFor(corpus', url)) = 1]_vars

-----------------------------------------------------------------------------
(* Properties of classify_protocol (SpecClassify) *)

\* C10: one invocation makes at most 3 calls to the service, has paused after every
\* failed attempt that another attempt follows, and ends with exactly the fallback
\* classification of its title and description when the client is not configured
\* or when 3 attempts have failed.
C10_BoundedRetryThenFallback ==
    /\ cl.calls <= 3
    /\ cl.failed <= cl.calls
    /\ ~cl.client => cl.calls = 0
    /\ cl.pc = "call" => cl.sleeps = cl.failed /\ cl.calls = cl.failed
    /\ cl.pc = "done" =>
        /\ cl.sleeps = IF cl.failed = 3 THEN 2 ELSE cl.failed
        /\ (~cl.client \/ cl.failed = 3) =>
            cl.result = FallbackClassification(cl.title, cl.description)

C10_Witness ==
    /\ cl.pc = "done" /\ cl.client
    /\ cl.calls = 3 /\ cl.failed = 3 /\ cl.sleeps = 2
    /\ cl.result = Some("Trader Joe")

\* the invocation ended in _fallback_classification
FellBack == cl.pc = "done" /\ (~cl.client \/ cl.failed = MaxRetries)

\* the known protocols of which text holds the name as whole words
WholeWordProtocols(text) ==
    {i \in DOMAIN KnownByLength : WholeWordMatch(KnownByLength[i], text)}

\* the known protocols whose name occurs in text, inside a longer word or not
OccurringProtocols(text) ==
    {i \in DOMAIN KnownByLength :
        WholeWordMatch(KnownByLength[i], text) \/ SubstringMatch(KnownByLength[i], text)}

\* C22: the fallback returns a protocol only if it is a known protocol whose name
\* stands in the title or in title plus description as whole words; it returns none
\* when no known name occurs in them; for "Aave exploit drains $10M" (and a description
\* naming no protocol) it returns "Aave".
C22_FallbackSound ==
    FellBack =>
        /\ cl.result # None =>
            \E i \in WholeWordProtocols(cl.title) \cup
                     WholeWordProtocols(cl.title \o cl.description) :
                cl.result = Some(TitleCase(KnownByLength[i]))
        /\ OccurringProtocols(cl.title \o cl.description) = {} => cl.result = None
        /\ (/\ cl.title = <<"aave", "exploit", "drains", "$10m">>
            /\ cl.description = <<"funds", "stolen">>) => cl.result = Some("Aave")

\* C23: when the title holds the name of some known protocol as whole words, the
\* fallback returns the longest known protocol so named in the title, whatever the
\* description names.
C23_TitleBeforeText ==
    (FellBack /\ WholeWordProtocols(cl.title) # {}) =>
        cl.result = FirstMatch(1, cl.title, TRUE)

\* the answer matches a known protocol exactly, as a substring or as an alias
MatchesKnown(answer) ==
    \/ DirectMatch(CleanOf(answer)) # None
    \/ PartialMatch(CleanOf(answer)) # None
    \/ SpecialCase(CleanOf(answer)) # None

\* the invocation ended with an answer of the service
Answered == cl.pc = "done" /\ cl.answer # None

-----------------------------------------------------------------------------
(* Properties of _scrape_article (SpecArticle) *)

\* the lower-cased text of the article; the relevance result once it is there
ArtText == Lower(JoinText(art.title, art.description))
RelevanceChecked == art.pc \notin {"idle", "extracted"}
AmountExtracted == art.pc \in {"amount", "risk", "tags", "built"}
RiskAssessed == art.pc \in {"risk", "tags", "built"}
TitleMentionsProtocol ==
    art.classified # None /\ Occurs(Lower(art.classified[1]), Lower(art.title))

\* the number of different threat keywords that occur in text
KeywordsPresent(text) ==
    Cardinality({w \in {ThreatKeywords[k] : k \in DOMAIN ThreatKeywords} : Occurs(w, text)})

\* C11: once the relevance of an article is decided, with a classified protocol the
\* confidence is 0.3 + min(0.1 x number of threat keywords present, 0.5) + 0.2 if the
\* protocol name occurs in the title, and the article is relevant iff a threat keyword
\* occurs and the confidence is at least 0.4; without a protocol it is not relevant.
C11_RelevanceGate ==
    RelevanceChecked =>
        LET r == art.relevance[1]
            n == KeywordsPresent(ArtText)
        IN IF art.classified = None THEN ~r.is_relevant
           ELSE /\ r.confidence = 3 + Min(n, 5) + (IF TitleMentionsProtocol THEN 2 ELSE 0)
                /\ r.is_relevant <=> (n > 0 /\ r.confidence >= 4)

\* an article with a classified protocol and no threat keyword, relevance decided
ZeroKeywordCase ==
    /\ RelevanceChecked
    /\ art.classified # None
    /\ KeywordsPresent(ArtText) = 0

\* C12 as stated: with a classified protocol and no threat keyword the article is
\* rejected and the confidence reported is below 0.4, whether or not the protocol name
\* occurs in the title.
C12_ConfidenceBelowThreshold ==
    ZeroKeywordCase =>
        /\ ~art.relevance[1].is_relevant
        /\ art.relevance[1].confidence < 4

\* C12 as amended: with a classified protocol and no threat keyword the article is
\* rejected (dropped); the confidence reported is 0.3 when the protocol name does not
\* occur in the title and 0.5 when it does.
C12_ZeroKeywordsRejected ==
    ZeroKeywordCase =>
        /\ ~art.relevance[1].is_relevant
        /\ art.pc = "dropped"
        /\ art.relevance[1].confidence = IF TitleMentionsProtocol THEN 5 ELSE 3

C12_Witness == ZeroKeywordCase /\ TitleMentionsProtocol /\ art.pc = "dropped"

\* loss amounts on both sides of the boundaries of assess_risk_level
BoundaryAmounts ==
    {Dollars(50000), Dollars(99999), Dollars(100000), Dollars(999999), MillionsOf(1),
     Dollars(9999999), MillionsOf(10)}

\* C13: for the title and description of an article, the risk level assessed for its
\* loss amount and the one assessed for any other loss amount are ordered as the
\* amounts are (low < medium < high < critical).
C13_RiskMonotonic ==
    (RiskAssessed /\ art.amount_lost # None) =>
        \A a2 \in BoundaryAmounts :
            LET other == AssessRiskLevel(Some(a2), art.title, art.description)
            IN /\ AmountGE(a2, art.amount_lost[1])
                    => RiskRank(art.risk_level[1]) <= RiskRank(other)
               /\ AmountGE(art.amount_lost[1], a2)
                    => RiskRank(other) <= RiskRank(art.risk_level[1])

HasDigit(s) == \E i \in 1 .. Len(s) : IsDigit(Ch(s, i))

\* C14: the amount extracted from "$N million" (followed by text without a number) is
\* N x 1,000,000; from "Nk" it is N x 1,000 when that exceeds 1,000 and none
\* otherwise; no amount of 1,000 or less is ever returned.
C14_AmountScaling ==
    AmountExtracted =>
        /\ art.amount_lost # None => AmountGT(art.amount_lost[1], Dollars(1000))
        /\ ~HasDigit(art.description) =>
            \A n \in 1 .. MaxN :
                /\ art.title = MillionTitle(n) => art.amount_lost = Some(MillionsOf(n))
                /\ art.title = ThousandTitle(n) =>
                    art.amount_lost = IF n * 1000 > 1000 THEN Some(Dollars(n * 1000))
                                      ELSE None

\* "1k" scales to 1,000 and is rejected
C14_Witness ==
    /\ art.pc = "built"
    /\ art.title = ThousandTitle(1) /\ ~HasDigit(art.description)
    /\ art.amount_lost = None

\* loss amounts around the thresholds of the two _calculate_severity_score
SeverityAmounts ==
    BoundaryAmounts \cup {Dollars(0), MillionsOf(5), MillionsOf(50), Dollars(99999999),
                          MillionsOf(100), MillionsOf(150), MillionsOf(2000000)}

\* C15: the severity score of every item built, and the score of each adapter for every
\* risk level and loss amount (none included), is within [0, 10]; with the base scores
\* low 2.0, medium 5.0, high 7.5, critical 9.0 (Rekt News) a loss of 100,000,000 or
\* more scores exactly min(10.0, base + 1.0).
C15_SeverityRange ==
    LET base == [level \in RiskLevels |->
                    IF level = "low" THEN 20 ELSE IF level = "medium" THEN 50
                    ELSE IF level = "high" THEN 75 ELSE 90]
    IN /\ art.pc = "built" =>
            /\ art.severity_score[1] \in 0 .. 100
            /\ (/\ art.key = "rekt" /\ art.amount_lost # None
                /\ AmountGE(art.amount_lost[1], MillionsOf(100)))
               => art.severity_score[1] = Min(100, base[art.risk_level[1]] + 10)
       /\ \A key \in Scrapers, level \in RiskLevels,
             amount \in {None} \cup {Some(a) : a \in SeverityAmounts} :
            /\ CalculateSeverityScore(key, amount, level) \in 0 .. 100
            /\ (key = "rekt" /\ Truthy(amount) /\ AmountGE(amount[1], MillionsOf(100)))
               => CalculateSeverityScore(key, amount, level) = Min(100, base[level] + 10)

C15_Witness ==
    /\ art.pc = "built" /\ art.key = "rekt"
    /\ art.amount_lost = Some(MillionsOf(150))
    /\ art.risk_level = Some("critical")
    /\ art.severity_score = Some(100)

\* the item built from title "Protocol X Hacked for $5 Million" and a body that
\* contains "flash loan exploit"
Scenario ==
    /\ art.pc = "built"
    /\ art.title = "Protocol X Hacked for $5 Million"
    /\ Occurs("flash loan exploit", Lower(art.description))
HasTag(tag) == \E i \in DOMAIN art.tags : art.tags[i] = tag
ScenarioFields ==
    /\ art.amount_lost = Some(Dollars(5000000))
    /\ art.risk_level = Some("high")
    /\ HasTag("exploit") /\ HasTag("flash_loan")

\* C16 as stated: the item has loss 5,000,000, risk level high, tags exploit and
\* flash_loan, and for each adapter a severity score of the adapter's base score for
\* high plus 0.5 (capped at 10.0).
C16_BumpForEachSource ==
    Scenario =>
        /\ ScenarioFields
        /\ art.severity_score = Some(Min(100, (IF art.key = "rekt" THEN 75 ELSE 70) + 5))

\* C16 as amended: the item has loss 5,000,000, risk level high, tags exploit and
\* flash_loan; its severity score is 7.0 + 0.5 = 7.5 from the Chainalysis adapter (which
\* adds 0.5 from 5,000,000) and the base score 7.5 from the Rekt News adapter (which adds
\* 0.5 only from 10,000,000).
C16_EndToEnd ==
    Scenario =>
        /\ ScenarioFields
        /\ art.severity_score = IF art.key = "chainalysis" THEN Some(70 + 5) ELSE Some(75)

C16_Witness == Scenario /\ art.key = "rekt" /\ art.severity_score = Some(75)

\* C17: the loss amount of every item built is absent, or strictly positive and below
\* 1e12.
C17_LossInRange ==
    art.pc = "built" =>
        \/ art.amount_lost = None
        \/ /\ AmountGT(art.amount_lost[1], Dollars(0))
           /\ ~AmountGE(art.amount_lost[1], MillionsOf(1000000))

\* the level assess_risk_level gave: the article's own for its own amount, the
\* function's for another amount of the same title and description
LevelFor(amount_lost) ==
    IF amount_lost = art.amount_lost THEN art.risk_level[1]
    ELSE AssessRiskLevel(amount_lost, art.title, art.description)

\* C25: for the article's loss and for any other loss with its title and description:
\* a loss of 10,000,000 or more is critical, of 1,000,000 or more high, of 100,000 or
\* more medium, whatever the keywords; with no loss or one below 100,000 the level is
\* critical if a critical keyword occurs, else high if a high keyword occurs, else
\* medium if a medium keyword occurs, else low.
C25_RiskDecisionOrder ==
    RiskAssessed =>
        \A a \in {art.amount_lost, None} \cup {Some(b) : b \in BoundaryAmounts} :
            IF a # None /\ AmountGE(a[1], MillionsOf(10)) THEN LevelFor(a) = "critical"
            ELSE IF a # None /\ AmountGE(a[1], MillionsOf(1)) THEN LevelFor(a) = "high"
            ELSE IF a # None /\ AmountGE(a[1], Dollars(100000))
            THEN LevelFor(a) = "medium"
            ELSE /\ AnyOccurs(CriticalKeywords, ArtText) => LevelFor(a) = "critical"
                 /\ (~AnyOccurs(CriticalKeywords, ArtText)
                        /\ AnyOccurs(HighKeywords, ArtText)) => LevelFor(a) = "high"
                 /\ (~AnyOccurs(CriticalKeywords, ArtText)
                        /\ ~AnyOccurs(HighKeywords, ArtText)
                        /\ AnyOccurs(MediumKeywords, ArtText)) => LevelFor(a) = "medium"
                 /\ (~AnyOccurs(CriticalKeywords, ArtText)
                        /\ ~AnyOccurs(HighKeywords, ArtText)
                        /\ ~AnyOccurs(MediumKeywords, ArtText)) => LevelFor(a) = "low"

\* a loss of 5,000,000 made the level high although a critical keyword occurs, and a
\* loss of 50,000 left the decision to the keywords
C25_Witness ==
    /\ art.pc = "risk"
    /\ \/ /\ art.title = "Protocol X Hacked for $5 Million"
          /\ AnyOccurs(CriticalKeywords, ArtText) /\ art.risk_level = Some("high")
       \/ /\ art.title = "Exploit costs 50k"
          /\ art.amount_lost = Some(Dollars(50000)) /\ art.risk_level = Some("critical")

\* the patterns in the order billion, million, thousand, bare numeral
BillionFirst == << Patterns[2], Patterns[1], Patterns[3], Patterns[4] >>

\* the first amount above 1000 when the patterns order[p..] are tried in turn
RECURSIVE ExtractInOrder(_, _, _)
ExtractInOrder(text, order, p) ==
    IF p > Len(order) THEN None
    ELSE LET found == FirstReasonable(FindIter(text, 1, order[p]), 1)
         IN IF found # None THEN found ELSE ExtractInOrder(text, order, p + 1)

\* C26: the loss extracted from an article is the first amount above 1000 found when
\* the patterns are tried in the order billion, million, thousand, bare numeral; a
\* text with a billion-scale and a million-scale amount gives the billion-scale one.
C26_BillionBeforeMillion ==
    AmountExtracted => art.amount_lost = ExtractInOrder(ArtText, BillionFirst, 1)

-----------------------------------------------------------------------------
(* Properties of fetch_page (SpecFetch) *)

\* C18: between any two GET requests sent to one source at least the adapter's
\* rate-limit delay elapses, also when two scrape invocations use the adapter at the
\* same time.
C18_RateLimit ==
    net.pc = "open" =>
        \A i, j \in DOMAIN net.gets :
            (i < j /\ net.gets[i].src = net.gets[j].src)
                => net.gets[j].t - net.gets[i].t >= RateLimitDelay

-----------------------------------------------------------------------------
(* Properties of scrape (SpecScrape) *)

\* the URL of the k-th discovered link
LinkURL(k) == URLJoin(BaseURL(scr.key), scr.links[k])

\* fetch_page has returned None for the page it was asked for
FetchFailed == scr.pc = "requesting" /\ scr'.content = None

\* C27: a call of fetch_page sends at most one GET; when the request for an article
\* fails (a status other than 200, a timeout or another error), the call returns None,
\* the items scraped so far are kept, and the adapter goes on with the next link:
\* at the head of the loop the next step is the fetch of the next link while there is
\* one, and the return of the items only when there is none.
C27_FetchFailureSkips ==
    /\ [](scr.pc # "idle" => scr.gets <= 1 /\ scr.requests <= scr.calls)
    /\ [][(FetchFailed /\ scr.target > 0) =>
            /\ scr'.pc = "loop" /\ scr'.i = scr.target
            /\ scr'.items = scr.items]_vars
    /\ [][(scr.pc = "loop" /\ scr' # scr) =>
            IF scr.i < Len(scr.slice)
            THEN scr'.pc = "sleeping" /\ scr'.target = scr.i + 1
            ELSE scr'.pc = "returned" /\ scr'.items = scr.items]_vars

\* the fetch of an article failed and a later article was appended to the items
C27_Witness ==
    /\ scr.pc = "returned" /\ scr.failedAt # <<>> /\ scr.items # <<>>
    /\ \E k \in DOMAIN scr.slice :
        k > scr.failedAt[1] /\ scr.items[Len(scr.items)] = LinkURL(k)

\* sub is what is left of full[from..] when some of its elements are removed
RECURSIVE IsSubsequence(_, _, _)
IsSubsequence(sub, full, from) ==
    IF sub = <<>> THEN TRUE
    ELSE IF from > Len(full) THEN FALSE
    ELSE IF Head(sub) = full[from] THEN IsSubsequence(Tail(sub), full, from + 1)
    ELSE IsSubsequence(sub, full, from + 1)

\* C28: the discovered links are distinct; the articles requested so far are the first
\* links in their order, each once, and no more than 20 (Rekt) or 15 (Chainalysis) of
\* them; the items are a subsequence, in that order, of the links handled so far;
\* at most one classification is outstanding, and only for the article fetched last;
\* when scrape returns, every one of the first 20 (15) links has been requested.
C28_InOrderOneAtATime ==
    scr.pc # "idle" =>
        /\ \A j, k \in DOMAIN scr.links : j # k => scr.links[j] # scr.links[k]
        /\ Len(scr.fetched) <= Limit(scr.key)
        /\ Len(scr.fetched) <= Len(scr.links)
        /\ scr.fetched = [k \in 1 .. Len(scr.fetched) |-> LinkURL(k)]
        /\ Len(scr.fetched) \in {scr.i, scr.i + 1}
        /\ IsSubsequence(scr.items, [k \in 1 .. scr.i |-> LinkURL(k)], 1)
        /\ scr.outstanding <= 1
        /\ scr.outstanding = 1 => scr.pc = "classify" /\ Len(scr.fetched) = scr.i + 1
        /\ (scr.pc = "returned" /\ scr.content # None) =>
                Len(scr.fetched) = Min(Len(scr.links), Limit(scr.key))

\* Rekt's page held 21 links: 20 were requested, some gave no item, the others are
\* the items
C28_Witness ==
    /\ scr.pc = "returned" /\ scr.key = "rekt"
    /\ Len(scr.links) = RektLimit + 1 /\ Len(scr.fetched) = RektLimit
    /\ scr.skipped > 0 /\ Len(scr.items) = RektLimit - scr.skipped

-----------------------------------------------------------------------------
(* Properties of the scheduler (SpecScheduler) *)

\* the step is a loop thread finding a job due while the scheduler is running
IsDuePoll ==
    /\ sch.running /\ sch.threads > 0 /\ JobDue(sch)
    /\ sch' # sch
    /\ sch'.now = sch.now /\ sch'.starts = sch.starts /\ sch'.running

\* C30: while the scheduler is running a loop thread is alive; start() launches the
\* initial scrape when it was not running and starts no thread when it was; and a loop
\* thread that finds the 4-hour job due launches another scrape.
C30_PeriodicScrape ==
    /\ [](sch.running => sch.threads >= 1)
    /\ [][sch'.starts = sch.starts + 1 =>
            IF sch.running THEN sch'.threads = sch.threads
            ELSE sch'.launched = sch.launched + 1 /\ sch'.threads = sch.threads + 1]_vars
    /\ [][IsDuePoll => sch'.launched = sch.launched + 1]_vars

====
